---- MODULE Spec2Model ----
(***************************************************************************)
(* A model of cargo-gpu: the `cargo gpu build` pipeline (Build::run in     *)
(* crates/cargo-gpu/src/build.rs), the process entry point (main and run   *)
(* in crates/cargo-gpu/src/main.rs) and the directory-name derivation      *)
(* (to_dirname in main.rs).                                                *)
(*                                                                         *)
(* Paths are sequences of components (<<"tmp","x","a.spv">> is             *)
(* /tmp/x/a.spv), texts are sequences of one-character strings.            *)
(***************************************************************************)
EXTENDS Naturals, Sequences, FiniteSets

(***************************************************************************)
(* Bounds of the model.                                                    *)
(***************************************************************************)
\* the largest number of ShaderModule records the helper lists in one run
MaxRecords == 2
\* the number of cargo-gpu process invocations in one behaviour
MaxCalls == 2
\* the longest input text of to_dirname
MaxLen == 2

(***************************************************************************)
(* The file system the build works in.                                     *)
(***************************************************************************)
\* the shader-crate root of the build (--shader-crate), canonical
CrateRoot == <<"tmp", "x">>
\* a directory the helper writes artifacts to, inside the shader crate
TargetDir == <<"tmp", "x", "target">>
\* the output directories a behaviour may use (--output-dir), canonical:
\* inside the shader crate, outside of it, and on another volume (a path
\* prefix such as a Windows drive)
OutputDirs == {<<"tmp", "x", "out">>, <<"work", "out">>, <<"D:", "out">>}
\* the components that are path prefixes (volumes)
Prefixes == {"D:"}
\* the file names of the artifacts
FileNames == {"a.spv", "b.spv"}

\* The contents of a file: none (the file does not exist), empty (created
\* or truncated, nothing written), partial (written in part), garbage (not
\* valid JSON), json (a JSON array of records), bytes (a compiled artifact,
\* named by the path the helper wrote it to).
NoFile == [kind |-> "none", data |-> <<>>]
Empty == [kind |-> "empty", data |-> <<>>]
Partial == [kind |-> "partial", data |-> <<>>]
Garbage == [kind |-> "garbage", data |-> <<>>]
Json(recs) == [kind |-> "json", data |-> recs]
Bytes(src) == [kind |-> "bytes", data |-> src]

\* Path::is_file
is_file(f) == f.kind # "none"

\* the byte order of the strings of the model (String's Ord)
StrOrder == <<"..", "D:", "a.spv", "b.spv", "frag", "main", "out", "target", "tmp", "work", "x">>

StrRank(s) == CHOOSE i \in 1..Len(StrOrder) : StrOrder[i] = s

StrLess(a, b) == StrRank(a) < StrRank(b)

\* lexicographic comparison of two paths, component by component
RECURSIVE PathLess(_, _)
PathLess(p, q) ==
    IF q = <<>> THEN FALSE
    ELSE IF p = <<>> THEN TRUE
    ELSE IF Head(p) = Head(q) THEN PathLess(Tail(p), Tail(q))
    ELSE StrLess(Head(p), Head(q))

(***************************************************************************)
(* std::path::Path::file_name: the last component, none for the root and   *)
(* for a path ending in "..".                                              *)
(***************************************************************************)
HasFileName(p) == p # <<>> /\ p[Len(p)] # ".."

file_name(p) == p[Len(p)]

\* Path::join of a directory and a file name
join(dir, name) == Append(dir, name)

\* the prefix (volume) of an absolute path, "" when it has none
PathPrefix(p) == IF p # <<>> /\ p[1] \in Prefixes THEN p[1] ELSE ""

\* the number of leading components two paths share
RECURSIVE CommonLen(_, _)
CommonLen(p, q) ==
    IF p = <<>> \/ q = <<>> \/ Head(p) # Head(q) THEN 0
    ELSE 1 + CommonLen(Tail(p), Tail(q))

\* the mutant of relative_to: the two paths are taken the other way round
relative_to_swapped(path, base) ==
    LET k == CommonLen(path, base)
    IN  [i \in 1..(Len(path) - k) |-> ".."] \o SubSeq(base, k + 1, Len(base))

\* whether relative_path::PathExt::relative_to succeeds on two absolute
\* paths: their prefixes must agree
relative_to_ok(path, base) == PathPrefix(path) = PathPrefix(base)

\* relative_path::PathExt::relative_to(path, base).to_path(""): one ".." for
\* each component of base below the common ancestor, then the rest of path
relative_to(path, base) ==
    LET k == CommonLen(path, base)
    IN  [i \in 1..(Len(base) - k) |-> ".."] \o SubSeq(path, k + 1, Len(path))

(***************************************************************************)
(* ShaderModule (a raw record) and Linkage (a final record).               *)
(***************************************************************************)
ShaderModule(entry, path) == [entry |-> entry, path |-> path]

\* Linkage::new
Linkage(entry, path) == [entry |-> entry, path |-> path]

\* Ord of Linkage: by entry name, then by path
LinkageLess(a, b) ==
    \/ StrLess(a.entry, b.entry)
    \/ a.entry = b.entry /\ PathLess(a.path, b.path)

\* insertion of a record into a sorted sequence, after its equals (stable)
RECURSIVE SortedInsert(_, _)
SortedInsert(x, s) ==
    IF s = <<>> THEN <<x>>
    ELSE IF LinkageLess(x, Head(s)) THEN <<x>> \o s
    ELSE <<Head(s)>> \o SortedInsert(x, Tail(s))

RECURSIVE SortSeq(_)
SortSeq(s) ==
    IF s = <<>> THEN <<>>
    ELSE SortedInsert(s[Len(s)], SortSeq(SubSeq(s, 1, Len(s) - 1)))

\* the mutant of linkage_sort: the records are written in discovery order
linkage_sort_none(s) == s

\* linkage.sort()
linkage_sort(s) == SortSeq(s)

(***************************************************************************)
(* to_dirname: a text is a sequence of one-character strings.              *)
(***************************************************************************)
\* std::path::MAIN_SEPARATOR
MAIN_SEPARATOR == "/"

\* the characters text.replace(..., "_") replaces
ReplacedChars == {MAIN_SEPARATOR, "\\", "/", ".", ":", "@", "="}

\* the characters split(...) splits at, which concat() then leaves out
SplitChars == {"{", "}", " ", "\n", "\"", "'"}

\* str::replace(chars, "_"): each matching character becomes "_"
replace(text, chars) ==
    [i \in 1..Len(text) |-> IF text[i] \in chars THEN "_" ELSE text[i]]

\* str::split(chars): the pieces between the matching characters, empty
\* pieces included
RECURSIVE split(_, _, _)
split(text, chars, piece) ==
    IF text = <<>> THEN <<piece>>
    ELSE IF Head(text) \in chars
         THEN <<piece>> \o split(Tail(text), chars, <<>>)
         ELSE split(Tail(text), chars, Append(piece, Head(text)))

\* [&str]::concat
RECURSIVE concat(_)
concat(pieces) ==
    IF pieces = <<>> THEN <<>> ELSE Head(pieces) \o concat(Tail(pieces))

\* the mutant of to_dirname: '.' is missing from the replaced characters
to_dirname_dot(text) ==
    concat(split(replace(text, ReplacedChars \ {"."}), SplitChars, <<>>))

\* the mutant of to_dirname: the single quote is missing from the characters
\* split at
to_dirname_quote(text) ==
    concat(split(replace(text, ReplacedChars), SplitChars \ {"'"}, <<>>))

to_dirname(text) ==
    concat(split(replace(text, ReplacedChars), SplitChars, <<>>))

\* the characters of the input texts: two that are kept, '_', two that are
\* replaced and two that are deleted
Alphabet == {"a", "b", "_", ".", "/", " ", "{"}

\* every character to_dirname replaces or deletes, with one that is kept
\* and '_'
FullAlphabet == ReplacedChars \cup SplitChars \cup {"a", "_"}

(***************************************************************************)
(* The state.                                                              *)
(***************************************************************************)
VARIABLES
    output_dir,       \* Build.output_dir, the same in every call of a behaviour
    crateExists,      \* whether the path given as --shader-crate exists
    installed,        \* whether the cache holds the binary pair
    manifest,         \* the contents of output_dir/manifest.json
    rawManifest,      \* the contents of output_dir/spirv-manifest.json
    outFiles,         \* the contents of output_dir/<name>, for each file name
    pc,               \* the position of the cargo-gpu process
    command,          \* the subcommand of this invocation
    calls,            \* the number of process invocations started
    shaders,          \* Build::run's local: the parsed raw manifest
    linkage,          \* Build::run's local: the Linkage records so far
    idx,              \* the record the map closure is called on next
    result,           \* what run() returned: "none", "Ok" or "Err"
    error,            \* the error run() returned
    printed,          \* whether main printed the error summary
    exitStatus,       \* the exit status of the process, once pc = "exited"
    compileSpawned,   \* the installer's compile subprocess started in this call
    helperSpawned,    \* the helper subprocess started in this call
    helperExit,       \* the helper's exit status in this call (0 before it ran)
    rawFresh,         \* this call's helper wrote the raw manifest now on disk
    parsedStale,      \* this call parsed a raw manifest its helper did not write
    manifestAtStart,  \* manifest.json as it was when this call began
    manifestTouched,  \* this call created (truncated) manifest.json
    artifactsAtExit,  \* outFiles as they were when this call's helper exited
    copies,           \* the number of artifact copies this call made
    text_a,           \* an input text of to_dirname
    text_b,           \* another input text of to_dirname
    dir_a,            \* to_dirname(text_a), once computed
    dir_b,            \* to_dirname(text_b), once computed
    dirDone,          \* whether the directory names are computed
    argv,             \* std::env::args() of the process
    args,             \* run's local: the list handed to Cli::parse_from
    argsDone,         \* whether args is computed
    cacheDylib,       \* the backend binary at the top level of the cache entry
    cacheCli,         \* the helper binary at the top level of the cache entry
    ipc,              \* the position of the installer
    iforce,           \* the force-rebuild flag of this install call
    icalls,           \* the number of install calls started
    compiles,         \* the number of compile subprocesses run so far
    okCalls,          \* the number of install calls that returned paths
    forcedEver,       \* whether any install call was forced
    installedAtCheck, \* what is_installed answered in this install call
    compiledThisCall, \* whether this install call ran the compile subprocess
    firstPaths,       \* the paths the first successful install call returned
    lastPaths         \* the paths the latest successful install call returned

fsVars == <<manifest, rawManifest, outFiles, installed>>

textVars == <<text_a, text_b, dir_a, dir_b, dirDone>>

argVars == <<argv, args, argsDone>>

cacheVars == <<cacheDylib, cacheCli>>

instVars == <<cacheVars, ipc, iforce, icalls, compiles, okCalls, forcedEver,
              installedAtCheck, compiledThisCall, firstPaths, lastPaths>>

inputVars == <<output_dir, crateExists, textVars, argVars, instVars>>

localVars == <<shaders, linkage, idx>>

procVars == <<command, calls, printed, exitStatus>>

spyVars == <<compileSpawned, helperSpawned, helperExit, rawFresh, parsedStale,
             manifestAtStart, manifestTouched, artifactsAtExit, copies>>

vars == <<inputVars, fsVars, pc, result, error, localVars, procVars, spyVars>>

\* the subcommands (enum Command)
Commands == {"install", "build", "toml", "show", "dump-usage"}

\* the records the helper may list in a raw manifest: an artifact in the
\* shader crate root, one in its target directory with the same file name,
\* one directly in the output directory, and one whose path (the root) has
\* no file name
ShaderModules ==
    { ShaderModule("main", join(CrateRoot, "a.spv")),
      ShaderModule("frag", join(TargetDir, "a.spv")),
      ShaderModule("main", join(output_dir, "b.spv")),
      ShaderModule("main", <<>>) }

\* the sequences of at most n elements of S
SeqsUpTo(S, n) == UNION { [1..k -> S] : k \in 0..n }

\* the raw manifests the helper may write
RawManifests == SeqsUpTo(ShaderModules, MaxRecords)

\* the directory a path lies in
parent(p) == SubSeq(p, 1, Len(p) - 1)

\* The artifact files after the helper wrote the artifacts its records
\* name: one that lies directly in output_dir is a file of outFiles.
WriteArtifacts(files, recs) ==
    [n \in FileNames |->
        IF \E i \in 1..Len(recs) : recs[i].path = join(output_dir, n)
        THEN Bytes(join(output_dir, n))
        ELSE files[n]]

\* The contents of the artifact at path p when the helper exited: a file
\* of output_dir has what outFiles held then, any other artifact what the
\* helper wrote to it.
ArtifactAt(files, p) ==
    IF parent(p) = output_dir THEN files[file_name(p)] ELSE Bytes(p)

\* no build has run: the cache and the output directory are empty
InitBuild ==
    /\ installed = FALSE
    /\ manifest = NoFile
    /\ rawManifest = NoFile
    /\ outFiles = [n \in FileNames |-> NoFile]
    /\ pc = "idle"
    /\ command = "none"
    /\ calls = 0
    /\ shaders = <<>>
    /\ linkage = <<>>
    /\ idx = 1
    /\ result = "none"
    /\ error = "none"
    /\ printed = FALSE
    /\ exitStatus = 0
    /\ compileSpawned = FALSE
    /\ helperSpawned = FALSE
    /\ helperExit = 0
    /\ rawFresh = FALSE
    /\ parsedStale = FALSE
    /\ manifestAtStart = NoFile
    /\ manifestTouched = FALSE
    /\ artifactsAtExit = [n \in FileNames |-> NoFile]
    /\ copies = 0

\* no directory name is asked for
InitText ==
    /\ text_a = <<>>
    /\ text_b = <<>>
    /\ dir_a = <<>>
    /\ dir_b = <<>>
    /\ dirDone = FALSE

\* no argument list is looked at
InitArgs ==
    /\ argv = <<>>
    /\ args = <<>>
    /\ argsDone = FALSE

\* the cache holds no binary pair and no install call has begun
InitInstall ==
    /\ cacheDylib = "none"
    /\ cacheCli = "none"
    /\ ipc = "idle"
    /\ iforce = FALSE
    /\ icalls = 0
    /\ compiles = 0
    /\ okCalls = 0
    /\ forcedEver = FALSE
    /\ installedAtCheck = FALSE
    /\ compiledThisCall = FALSE
    /\ firstPaths = <<>>
    /\ lastPaths = <<>>

Init ==
    /\ output_dir \in OutputDirs
    /\ crateExists \in BOOLEAN
    /\ InitBuild
    /\ InitText
    /\ InitArgs
    /\ InitInstall

(***************************************************************************)
(* main and run: one invocation of the cargo-gpu process.                  *)
(***************************************************************************)
\* run() returns r with error e (the ? operator, ensure! and bail!)
Return(r, e) == pc' = "returned" /\ result' = r /\ error' = e

\* whether the message of an error names a file path: the three messages
\* formatted with a path's display()
names_path(e) ==
    e \in {"shader crate does not exist",
           "could not create shader manifest file",
           "could not write shader manifest file"}

\* run: the arguments are parsed and the subcommand dispatched
main_start ==
    /\ pc \in {"idle", "exited"}
    /\ calls < MaxCalls
    /\ calls' = calls + 1
    /\ \E cmd \in Commands :
        /\ command' = cmd
        /\ pc' = IF cmd \in {"install", "build"} THEN "install" ELSE "other"
    /\ result' = "none"
    /\ error' = "none"
    /\ printed' = FALSE
    /\ exitStatus' = 0
    /\ shaders' = <<>>
    /\ linkage' = <<>>
    /\ idx' = 1
    /\ compileSpawned' = FALSE
    /\ helperSpawned' = FALSE
    /\ helperExit' = 0
    /\ rawFresh' = FALSE
    /\ parsedStale' = FALSE
    /\ manifestAtStart' = manifest
    /\ manifestTouched' = FALSE
    /\ artifactsAtExit' = outFiles
    /\ copies' = 0
    /\ UNCHANGED <<inputVars, fsVars>>

\* Install::run: the pair is built when the cache holds none or a rebuild
\* is forced, by a compile subprocess that may fail
Install_run ==
    /\ pc = "install"
    /\ \E force \in BOOLEAN, ok \in BOOLEAN :
        IF installed /\ ~force
        THEN /\ UNCHANGED <<installed, compileSpawned>>
             /\ IF command = "build"
                THEN pc' = "create_output_dir" /\ UNCHANGED <<result, error>>
                ELSE Return("Ok", "none")
        ELSE /\ compileSpawned' = TRUE
             /\ IF ok
                THEN /\ installed' = TRUE
                     /\ IF command = "build"
                        THEN pc' = "create_output_dir" /\ UNCHANGED <<result, error>>
                        ELSE Return("Ok", "none")
                ELSE /\ UNCHANGED installed
                     /\ Return("Err", "install failed")
    /\ UNCHANGED <<inputVars, manifest, rawManifest, outFiles, localVars, procVars,
                   helperSpawned, helperExit, rawFresh, parsedStale, manifestAtStart,
                   manifestTouched, artifactsAtExit, copies>>

\* the steps of Build::run that touch no file of the model
BuildStep(ok, next, e) ==
    /\ IF ok THEN pc' = next /\ UNCHANGED <<result, error>> ELSE Return("Err", e)
    /\ UNCHANGED <<inputVars, fsVars, localVars, procVars, spyVars>>

\* create_dir_all(output_dir) and output_dir.canonicalize()
Build_create_output_dir ==
    /\ pc = "create_output_dir"
    /\ \E ok \in BOOLEAN : BuildStep(ok, "check_shader_crate", "io: output dir")

\* shader_crate.canonicalize(), which fails on a path that does not exist,
\* then ensure!(shader_crate.exists(), "shader crate ... does not exist")
Build_check_shader_crate ==
    /\ pc = "check_shader_crate"
    /\ IF ~crateExists
       THEN BuildStep(FALSE, "args", "io: No such file or directory")
       ELSE BuildStep(crateExists, "args", "shader crate does not exist")

\* the helper's argument: target_spec_dir() creates a directory of the cache
Build_args ==
    /\ pc = "args"
    /\ \E ok \in BOOLEAN : BuildStep(ok, "helper", "io: target spec dir")

\* the mutant of status_success: the exit status is not looked at
status_success_any(status) == TRUE

\* output.status.success()
status_success(status) == status = 0

\* Command::new(spirv_builder_cli_path).output() and the check of its exit
\* status. The helper is opaque: it may write a raw manifest (valid or not)
\* or none, with the artifacts it lists, and exit with any status.
Build_run_helper ==
    /\ pc = "helper"
    /\ \/ /\ Return("Err", "io: spawn")
          /\ UNCHANGED <<fsVars, spyVars>>
       \/ /\ helperSpawned' = TRUE
          /\ \E out \in {NoFile, Garbage} \cup { Json(m) : m \in RawManifests } :
                /\ rawManifest' = IF is_file(out) THEN out ELSE rawManifest
                /\ rawFresh' = is_file(out)
                /\ outFiles' = WriteArtifacts(outFiles, out.data)
                /\ artifactsAtExit' = outFiles'
          /\ \E status \in {0, 1} :
                /\ helperExit' = status
                /\ IF status_success(status)
                   THEN pc' = "check_raw" /\ UNCHANGED <<result, error>>
                   ELSE Return("Err", "build failed")
          /\ UNCHANGED <<manifest, installed, compileSpawned, parsedStale,
                         manifestAtStart, manifestTouched, copies>>
    /\ UNCHANGED <<inputVars, localVars, procVars>>

\* the mutant of Build_check_raw: the raw manifest is not looked for
Build_check_raw_skip ==
    /\ pc = "check_raw"
    /\ BuildStep(TRUE, "parse_raw", "missing raw manifest")

\* spirv_manifest.is_file(), else bail!("missing raw manifest")
Build_check_raw ==
    /\ pc = "check_raw"
    /\ BuildStep(is_file(rawManifest), "parse_raw", "missing raw manifest")

\* serde_json::from_reader(File::open(&spirv_manifest)?)?
Build_parse_raw ==
    /\ pc = "parse_raw"
    /\ \E opened \in BOOLEAN :
        IF opened /\ rawManifest.kind = "json"
        THEN /\ shaders' = rawManifest.data
             /\ parsedStale' = ~rawFresh
             /\ pc' = "map"
             /\ UNCHANGED <<result, error>>
        ELSE /\ Return("Err", IF opened THEN "parse raw manifest" ELSE "io: open raw manifest")
             /\ UNCHANGED <<shaders, parsedStale>>
    /\ UNCHANGED <<inputVars, fsVars, linkage, idx, procVars, compileSpawned,
                   helperSpawned, helperExit, rawFresh, manifestAtStart,
                   manifestTouched, artifactsAtExit, copies>>

\* std::fs::copy(src, dst) when it succeeds: what dst holds afterwards.
\* Copying a file onto itself truncates it before anything is read.
fs_copy(files, src, dst) ==
    IF src = dst THEN Empty ELSE ArtifactAt(files, src)

\* the map closure on one ShaderModule record: the file name, the copy
\* into output_dir, the path of the copy relative to the shader crate
Build_map_record ==
    /\ pc = "map"
    /\ idx <= Len(shaders)
    /\ LET filepath == shaders[idx].path
           entry == shaders[idx].entry
       IN  IF ~HasFileName(filepath)
           THEN /\ Return("Err", "Couldn't parse file name from shader module path")
                /\ UNCHANGED <<outFiles, copies, linkage, idx>>
           ELSE LET path == join(output_dir, file_name(filepath))
                IN  \/ /\ Return("Err", "io: copy")
                       /\ UNCHANGED <<outFiles, copies, linkage, idx>>
                    \/ /\ outFiles' = [outFiles EXCEPT
                                ![file_name(filepath)] = fs_copy(outFiles, filepath, path)]
                       /\ copies' = copies + 1
                       /\ IF relative_to_ok(path, CrateRoot)
                          THEN /\ linkage' = Append(linkage,
                                        Linkage(entry, relative_to(path, CrateRoot)))
                               /\ idx' = idx + 1
                               /\ UNCHANGED <<pc, result, error>>
                          ELSE /\ Return("Err", "relative_to")
                               /\ UNCHANGED <<linkage, idx>>
    /\ UNCHANGED <<inputVars, manifest, rawManifest, installed, shaders, procVars,
                   compileSpawned, helperSpawned, helperExit, rawFresh, parsedStale,
                   manifestAtStart, manifestTouched, artifactsAtExit>>

\* collect() is done: linkage.sort(), to_string_pretty, File::create
Build_create_manifest ==
    /\ pc = "map"
    /\ idx > Len(shaders)
    /\ linkage' = linkage_sort(linkage)
    /\ \E ok \in BOOLEAN :
        IF ok
        THEN /\ manifest' = Empty
             /\ manifestTouched' = TRUE
             /\ pc' = "write_manifest"
             /\ UNCHANGED <<result, error>>
        ELSE /\ Return("Err", "could not create shader manifest file")
             /\ UNCHANGED <<manifest, manifestTouched>>
    /\ UNCHANGED <<inputVars, rawManifest, outFiles, installed, shaders, idx, procVars,
                   compileSpawned, helperSpawned, helperExit, rawFresh, parsedStale,
                   manifestAtStart, artifactsAtExit, copies>>

\* the mutant of Build_write_manifest: a failed write is not returned
Build_write_manifest_swallow ==
    /\ pc = "write_manifest"
    /\ manifest' \in {Json(linkage), Empty, Partial}
    /\ pc' = "remove_raw"
    /\ UNCHANGED <<result, error>>
    /\ UNCHANGED <<inputVars, rawManifest, outFiles, installed, localVars, procVars,
                   spyVars>>

\* file.write_all(json): all of it, or an error with nothing or a part of
\* it written
Build_write_manifest ==
    /\ pc = "write_manifest"
    /\ \/ /\ manifest' = Json(linkage)
          /\ pc' = "remove_raw"
          /\ UNCHANGED <<result, error>>
       \/ /\ manifest' \in {Empty, Partial}
          /\ Return("Err", "could not write shader manifest file")
    /\ UNCHANGED <<inputVars, rawManifest, outFiles, installed, localVars, procVars,
                   spyVars>>

\* if spirv_manifest.is_file() { remove_file(spirv_manifest)? }; Ok(())
Build_remove_raw ==
    /\ pc = "remove_raw"
    /\ IF is_file(rawManifest)
       THEN \/ /\ rawManifest' = NoFile
               /\ Return("Ok", "none")
            \/ /\ UNCHANGED rawManifest
               /\ Return("Err", "io: remove raw manifest")
       ELSE /\ UNCHANGED rawManifest
            /\ Return("Ok", "none")
    /\ UNCHANGED <<inputVars, manifest, outFiles, installed, localVars, procVars,
                   spyVars>>

\* toml.run(), show.run() and dump_full_usage_for_readme(): each succeeds
\* or returns an error
other_run ==
    /\ pc = "other"
    /\ \E ok \in BOOLEAN :
        IF ok THEN Return("Ok", "none") ELSE Return("Err", "command failed")
    /\ UNCHANGED <<inputVars, fsVars, localVars, procVars, spyVars>>

\* main after run() returned: an error is logged and printed, and main
\* returns (), which ends the process with status 0
main_exit_status(r) == 0

main_finish ==
    /\ pc = "returned"
    /\ printed' = (result = "Err")
    /\ exitStatus' = main_exit_status(result)
    /\ pc' = "exited"
    /\ UNCHANGED <<inputVars, fsVars, localVars, command, calls, result, error,
                   spyVars>>

Next ==
    \/ main_start
    \/ Install_run
    \/ Build_create_output_dir
    \/ Build_check_shader_crate
    \/ Build_args
    \/ Build_run_helper
    \/ Build_check_raw
    \/ Build_parse_raw
    \/ Build_map_record
    \/ Build_create_manifest
    \/ Build_write_manifest
    \/ Build_remove_raw
    \/ other_run
    \/ main_finish

Spec == Init /\ [][Next]_vars

(***************************************************************************)
(* to_dirname on its own: two input texts, and the directory names          *)
(* computed from them.                                                     *)
(***************************************************************************)
Texts == SeqsUpTo(Alphabet, MaxLen)

InitDirname ==
    /\ output_dir = CrateRoot \o <<"out">>
    /\ crateExists = TRUE
    /\ InitBuild
    /\ text_a \in Texts
    /\ text_b \in Texts
    /\ dir_a = <<>>
    /\ dir_b = <<>>
    /\ dirDone = FALSE
    /\ InitArgs
    /\ InitInstall

to_dirname_call ==
    /\ ~dirDone
    /\ dir_a' = to_dirname(text_a)
    /\ dir_b' = to_dirname(text_b)
    /\ dirDone' = TRUE
    /\ UNCHANGED <<output_dir, crateExists, text_a, text_b, argVars, instVars, fsVars,
                   pc, result, error, localVars, procVars, spyVars>>

NextDirname == to_dirname_call

SpecDirname == InitDirname /\ [][NextDirname]_vars

(***************************************************************************)
(* to_dirname on one input text over every character it treats.            *)
(***************************************************************************)
TextsAll == SeqsUpTo(FullAlphabet, MaxLen)

InitDirnameAll ==
    /\ output_dir = CrateRoot \o <<"out">>
    /\ crateExists = TRUE
    /\ InitBuild
    /\ text_a \in TextsAll
    /\ text_b = <<>>
    /\ dir_a = <<>>
    /\ dir_b = <<>>
    /\ dirDone = FALSE
    /\ InitArgs
    /\ InitInstall

SpecDirnameAll == InitDirnameAll /\ [][NextDirname]_vars

(***************************************************************************)
(* run's argument list: the process arguments with "gpu" filtered out.     *)
(***************************************************************************)
\* the longest list of parameters after the program name
MaxArgs == 3

\* the parameters a caller may pass
ArgTokens == {"gpu", "build", "--features", "--output-dir"}

\* std::env::args().filter(|arg| arg != "gpu").collect()
filter_args(list) == SelectSeq(list, LAMBDA arg : arg # "gpu")

\* the process is started with a program name and up to MaxArgs parameters
InitArgv ==
    /\ output_dir = CrateRoot \o <<"out">>
    /\ crateExists = TRUE
    /\ InitBuild
    /\ InitText
    /\ argv \in { <<"cargo-gpu">> \o rest : rest \in SeqsUpTo(ArgTokens, MaxArgs) }
    /\ args = <<>>
    /\ argsDone = FALSE
    /\ InitInstall

\* run: the first statement, up to Cli::parse_from(args)
run_args ==
    /\ ~argsDone
    /\ args' = filter_args(argv)
    /\ argsDone' = TRUE
    /\ UNCHANGED <<output_dir, crateExists, textVars, argv, instVars, fsVars, pc,
                   result, error, localVars, procVars, spyVars>>

NextArgs == run_args

SpecArgs == InitArgv /\ [][NextArgs]_vars

(***************************************************************************)
(* Install::run step by step: the check of the cache, the compile          *)
(* subprocess in the cache directory of the pair, and the two artifacts    *)
(* put into the top level of that directory.                               *)
(***************************************************************************)
\* the dependency and toolchain pair every install call of a behaviour asks for
Signature == <<"a", "@", "b", ":", "c">>

\* the paths Install::run returns: the two artifacts at the top level of
\* the cache directory named by the pair
InstallPaths(sig) ==
    [dylib_path |-> <<"rust-gpu">> \o to_dirname(sig) \o <<"rustc_codegen_spirv">>,
     spirv_builder_cli_path |-> <<"rust-gpu">> \o to_dirname(sig) \o <<"spirv-builder-cli">>]

\* a pair counts as installed when both artifact files exist
is_installed(dylib, cli) == dylib # "none" /\ cli # "none"

\* the mutant of needs_build: the pair is always built
needs_build_always(inst, force) == TRUE

\* the pair is built when no existing pair matches or a rebuild is forced
needs_build(inst, force) == ~inst \/ force

\* what no step of Install::run touches
buildVars == <<output_dir, crateExists, textVars, argVars, fsVars, pc, result, error,
               localVars, procVars, spyVars>>

\* an install call begins
Install_run_start ==
    /\ ipc \in {"idle", "done", "killed"}
    /\ icalls < MaxCalls
    /\ icalls' = icalls + 1
    /\ \E force \in BOOLEAN :
        /\ iforce' = force
        /\ forcedEver' = (forcedEver \/ force)
    /\ installedAtCheck' = FALSE
    /\ compiledThisCall' = FALSE
    /\ ipc' = "check"
    /\ UNCHANGED <<cacheVars, compiles, okCalls, firstPaths, lastPaths, buildVars>>

\* Install::run returns the paths of the pair
Install_return_paths ==
    /\ okCalls' = okCalls + 1
    /\ lastPaths' = InstallPaths(Signature)
    /\ firstPaths' = IF okCalls = 0 THEN InstallPaths(Signature) ELSE firstPaths
    /\ ipc' = "done"

\* Install::run returns an error
Install_return_err ==
    /\ ipc' = "done"
    /\ UNCHANGED <<okCalls, firstPaths, lastPaths>>

\* the cache is looked at: an existing pair is returned unless a rebuild is
\* forced
Install_run_check ==
    /\ ipc = "check"
    /\ installedAtCheck' = is_installed(cacheDylib, cacheCli)
    /\ IF needs_build(is_installed(cacheDylib, cacheCli), iforce)
       THEN ipc' = "compile" /\ UNCHANGED <<okCalls, firstPaths, lastPaths>>
       ELSE Install_return_paths
    /\ UNCHANGED <<cacheVars, iforce, icalls, compiles, forcedEver, compiledThisCall,
                   buildVars>>

\* cargo is invoked in the cache directory of the pair and may fail
Install_run_compile ==
    /\ ipc = "compile"
    /\ compiles' = compiles + 1
    /\ compiledThisCall' = TRUE
    /\ \E ok \in BOOLEAN :
        IF ok
        THEN ipc' = "copy_dylib" /\ UNCHANGED <<okCalls, firstPaths, lastPaths>>
        ELSE Install_return_err
    /\ UNCHANGED <<cacheVars, iforce, icalls, forcedEver, installedAtCheck, buildVars>>

\* what a copy leaves alone
copyUnchanged == <<iforce, icalls, compiles, forcedEver, installedAtCheck,
                   compiledThisCall, buildVars>>

\* the backend binary is put into the top level of the cache directory: the
\* copy creates the destination, then fills it or fails
Install_run_copy_dylib ==
    /\ \/ /\ ipc = "copy_dylib"
          /\ cacheDylib' = "partial"
          /\ ipc' = "copying_dylib"
          /\ UNCHANGED <<okCalls, firstPaths, lastPaths>>
       \/ /\ ipc = "copying_dylib"
          /\ \/ /\ cacheDylib' = "full"
                /\ ipc' = "copy_cli"
                /\ UNCHANGED <<okCalls, firstPaths, lastPaths>>
             \/ /\ UNCHANGED cacheDylib
                /\ Install_return_err
    /\ UNCHANGED <<cacheCli, copyUnchanged>>

\* the helper binary is put into the top level of the cache directory
Install_run_copy_cli ==
    /\ \/ /\ ipc = "copy_cli"
          /\ cacheCli' = "partial"
          /\ ipc' = "copying_cli"
          /\ UNCHANGED <<okCalls, firstPaths, lastPaths>>
       \/ /\ ipc = "copying_cli"
          /\ \/ /\ cacheCli' = "full"
                /\ Install_return_paths
             \/ /\ UNCHANGED cacheCli
                /\ Install_return_err
    /\ UNCHANGED <<cacheDylib, copyUnchanged>>

\* the process is killed while an install call runs
Install_killed ==
    /\ ipc \notin {"idle", "done", "killed"}
    /\ ipc' = "killed"
    /\ UNCHANGED <<cacheVars, iforce, icalls, compiles, okCalls, forcedEver,
                   installedAtCheck, compiledThisCall, firstPaths, lastPaths,
                   buildVars>>

InitInstallRun ==
    /\ output_dir = CrateRoot \o <<"out">>
    /\ crateExists = TRUE
    /\ InitBuild
    /\ InitText
    /\ InitArgs
    /\ InitInstall

NextInstall ==
    \/ Install_run_start
    \/ Install_run_check
    \/ Install_run_compile
    \/ Install_run_copy_dylib
    \/ Install_run_copy_cli
    \/ Install_killed

SpecInstall == InitInstallRun /\ [][NextInstall]_vars

(***************************************************************************)
(* The claims.                                                             *)
(***************************************************************************)
\* run() of a build has returned
BuildReturned == command = "build" /\ pc \in {"returned", "exited"}

BuildOk == BuildReturned /\ result = "Ok"

BuildErr == BuildReturned /\ result = "Err"

\* C1: once the helper has exited with a non-zero status, Build::run has
\* returned an error and manifest.json is what it was when the call began:
\* not created, not truncated.
C1_HelperFailureLeavesManifest ==
    (helperSpawned /\ helperExit # 0) =>
        /\ BuildErr
        /\ ~manifestTouched
        /\ manifest = manifestAtStart

\* C1 witness: the helper failed, having written a raw manifest, in a call
\* that found the manifest of an earlier build.
C1_Witness ==
    /\ helperSpawned /\ helperExit = 1 /\ rawFresh
    /\ BuildErr /\ error = "build failed"
    /\ manifestAtStart.kind = "json"
    /\ manifest = manifestAtStart

\* C2 (as claimed): whenever Build::run returns an error, no manifest.json
\* this call created or wrote is left in output_dir.
C2_NoManifestLeftOnError ==
    BuildErr => ~(manifestTouched /\ is_file(manifest))

\* the path a relative path names, resolved against a base directory
RECURSIVE Resolve(_, _)
Resolve(base, rel) ==
    IF rel = <<>> THEN base
    ELSE IF Head(rel) = ".."
         THEN Resolve(SubSeq(base, 1, Len(base) - 1), Tail(rel))
         ELSE Resolve(Append(base, Head(rel)), Tail(rel))

\* whether path p lies under directory d
Under(p, d) == Len(p) >= Len(d) /\ SubSeq(p, 1, Len(d)) = d

\* C3 (as claimed): after a successful build, every raw record whose
\* artifact lies at <shader crate root>/<f> has a Linkage record with its
\* entry and the path <f>, whatever output_dir is.
C3_PathIsArtifactRelativeToCrate ==
    BuildOk =>
        \A i \in 1..Len(shaders) :
            Under(shaders[i].path, CrateRoot) /\ HasFileName(shaders[i].path) =>
                \E j \in 1..Len(manifest.data) :
                    manifest.data[j] =
                        Linkage(shaders[i].entry,
                                SubSeq(shaders[i].path, Len(CrateRoot) + 1,
                                       Len(shaders[i].path)))

\* C3 (amended): after a successful build, every raw record has a Linkage
\* record with its entry whose path, resolved against the shader-crate
\* root, is the copy output_dir/<file name>; the path depends on
\* output_dir. Raw path /tmp/x/a.spv with shader crate root /tmp/x yields
\* out/a.spv for the output directory /tmp/x/out and ../../work/out/a.spv
\* for /work/out.
C3_PathIsCopyRelativeToCrate ==
    BuildOk =>
        /\ \A i \in 1..Len(shaders) :
                \E j \in 1..Len(manifest.data) :
                    /\ manifest.data[j].entry = shaders[i].entry
                    /\ Resolve(CrateRoot, manifest.data[j].path) =
                            join(output_dir, file_name(shaders[i].path))
        /\ shaders = <<ShaderModule("main", join(CrateRoot, "a.spv"))>> =>
                manifest.data =
                    <<Linkage("main",
                        IF output_dir = <<"tmp", "x", "out">>
                        THEN <<"out", "a.spv">>
                        ELSE <<"..", "..", "work", "out", "a.spv">>)>>

\* C3 witness: the scenario's build succeeded with an output directory
\* outside the shader crate.
C3_Witness ==
    /\ BuildOk
    /\ output_dir = <<"work", "out">>
    /\ shaders = <<ShaderModule("main", join(CrateRoot, "a.spv"))>>
    /\ manifest = Json(<<Linkage("main", <<"..", "..", "work", "out", "a.spv">>)>>)

\* the number of records of s with entry e and file name n
Count(s, e, n) ==
    Cardinality({ i \in 1..Len(s) :
        s[i].entry = e /\ s[i].path # <<>> /\ file_name(s[i].path) = n })

\* C4: after a successful build, manifest.json holds one Linkage record
\* for each record of the raw manifest, none dropped and none added, in
\* ascending order by entry name and then by path.
C4_ManifestCompleteAndSorted ==
    BuildOk =>
        /\ manifest.kind = "json"
        /\ Len(manifest.data) = Len(shaders)
        /\ \A e \in {"frag", "main"}, n \in FileNames :
                Count(manifest.data, e, n) = Count(shaders, e, n)
        /\ \A i, j \in 1..Len(manifest.data) :
                i < j =>
                    \/ StrLess(manifest.data[i].entry, manifest.data[j].entry)
                    \/ /\ manifest.data[i].entry = manifest.data[j].entry
                       /\ ~PathLess(manifest.data[j].path, manifest.data[i].path)

\* C4 witness: a build succeeded whose raw manifest listed two records in
\* descending order.
C4_Witness ==
    /\ BuildOk
    /\ Len(shaders) = 2
    /\ shaders[1].entry = "main" /\ shaders[2].entry = "frag"
    /\ manifest.data[1].entry = "frag" /\ manifest.data[2].entry = "main"

\* C5 (as claimed): after a successful build, for every raw record the file
\* output_dir/<file name> holds what the record's artifact held when the
\* helper exited.
C5_CopiesHoldTheArtifacts ==
    BuildOk =>
        \A i \in 1..Len(shaders) :
            outFiles[file_name(shaders[i].path)] =
                ArtifactAt(artifactsAtExit, shaders[i].path)

\* C6 (as claimed): when Build::run fails because output_dir cannot be
\* created or the shader crate does not exist, no subprocess was started
\* in that call, neither the installer's compile nor the helper.
C6_ConfigErrorBeforeAnySubprocess ==
    (BuildErr /\ error \in {"io: output dir", "io: No such file or directory",
                            "shader crate does not exist"}) =>
        (~compileSpawned /\ ~helperSpawned)

\* C7: when the helper exited with status 0 and spirv-manifest.json is no
\* file at the check, Build::run returns the error "missing raw manifest",
\* having copied no artifact and not created manifest.json.
C7_MissingRawManifestFails ==
    [][(pc = "check_raw" /\ ~is_file(rawManifest)) =>
            /\ pc' = "returned"
            /\ result' = "Err"
            /\ error' = "missing raw manifest"
            /\ copies' = 0
            /\ ~manifestTouched'
            /\ manifest' = manifestAtStart
            /\ outFiles' = artifactsAtExit]_vars

\* C7 witness: the helper exited with status 0 and the build failed for
\* the missing raw manifest.
C7_Witness ==
    /\ BuildErr /\ error = "missing raw manifest"
    /\ helperSpawned /\ helperExit = 0
    /\ ~is_file(rawManifest)

\* C8 (as claimed): no build call parses a raw manifest that this call's
\* helper did not write.
C8_NoStaleRawManifestParsed == ~parsedStale

\* C9 (as claimed): when run() returned an error, the process ends with a
\* non-zero exit status after printing the error summary.
C9_ErrorExitsNonZero ==
    (pc = "exited" /\ result = "Err") => (printed /\ exitStatus # 0)

\* to_dirname in one pass: a deleted character is left out, a replaced
\* character and '_' are read as '_'
RECURSIVE Canon(_)
Canon(text) ==
    IF text = <<>> THEN <<>>
    ELSE IF Head(text) \in {"{", "}", " ", "\n", "\"", "'"} THEN Canon(Tail(text))
    ELSE IF Head(text) \in {"/", "\\", ".", ":", "@", "="}
         THEN <<"_">> \o Canon(Tail(text))
         ELSE <<Head(text)>> \o Canon(Tail(text))

\* C10 (as claimed): two input texts that differ give different directory
\* names.
C10_DirnameInjective ==
    (dirDone /\ text_a # text_b) => dir_a # dir_b

\* C10 (amended): two input texts give the same directory name exactly when
\* they agree once the deleted characters are left out and every replaced
\* character is read as '_'; so two texts that differ and hold none of the
\* replaced or deleted characters give different directory names.
C10_DirnameInjectiveUpToSanitizing ==
    dirDone =>
        /\ (dir_a = dir_b) <=> (Canon(text_a) = Canon(text_b))
        /\ (/\ text_a # text_b
            /\ \A i \in 1..Len(text_a) : text_a[i] \in {"a", "b", "_"}
            /\ \A i \in 1..Len(text_b) : text_b[i] \in {"a", "b", "_"})
                => dir_a # dir_b

\* C10 witness: two texts that differ only in a replaced character were
\* given the same directory name.
C10_Witness ==
    /\ dirDone
    /\ text_a = <<"a", ".">> /\ text_b = <<"a", "/">>
    /\ dir_a = <<"a", "_">> /\ dir_b = dir_a

\* the characters the directory name must not hold
Forbidden == {"/", "\\", ".", ":", "@", "=", "{", "}", " ", "\n", "\"", "'"}

Orders(n) == { q \in [1..n -> 1..n] : \A i, j \in 1..n : q[i] = q[j] => i = j }

\* the records of recs listed in the order q
Reordered(recs, q) == [i \in 1..Len(recs) |-> recs[q[i]]]

\* the manifest of a list of raw records: each record's copy relative to
\* the shader crate, sorted
ManifestOf(recs) ==
    Json(linkage_sort(
        [i \in 1..Len(recs) |->
            Linkage(recs[i].entry,
                    relative_to(join(output_dir, file_name(recs[i].path)), CrateRoot))]))

\* C12: the manifest.json a successful build writes is fixed by the records
\* its helper listed, whatever their order and whatever an earlier call left
\* in output_dir; so two successful builds whose helpers list the same
\* records, in any order, write the same manifest.json.
C12_ManifestDeterministic ==
    (BuildOk /\ ~parsedStale) =>
        \A q \in Orders(Len(shaders)) : manifest = ManifestOf(Reordered(shaders, q))

\* C12 witness: a second build, into an output directory that held the
\* files of an earlier one, listed two different records in descending order
\* and wrote the manifest.json the earlier build had written.
C12_Witness ==
    /\ BuildOk /\ ~parsedStale
    /\ calls = 2
    /\ Len(shaders) = 2
    /\ shaders[1].entry = "main" /\ shaders[2].entry = "frag"
    /\ manifestAtStart.kind = "json"
    /\ manifestTouched
    /\ manifest = manifestAtStart

\* C13 (as claimed): at every point of a build a reader of manifest.json
\* finds no file or a complete manifest, never an empty or partly written
\* file.
C13_ManifestNeverPartial == manifest.kind \in {"none", "json"}

\* C14 (as claimed): when the shader-crate path does not exist and
\* Build::run gets as far as checking it, the error is the descriptive one:
\* "shader crate '<path>' does not exist. (Current dir is '<cwd>')".
C14_MissingCrateIsDescribed ==
    (BuildErr /\ ~crateExists /\ error \notin {"install failed", "io: output dir"}) =>
        error = "shader crate does not exist"

\* the errors of a manifest-consistency failure
ManifestConsistencyErrors ==
    {"missing raw manifest", "io: open raw manifest", "parse raw manifest",
     "Couldn't parse file name from shader module path", "relative_to"}

\* C15 (as claimed): every manifest-consistency failure makes Build::run
\* return an error whose message names the file path concerned.
C15_ConsistencyErrorsNamePath ==
    (BuildErr /\ error \in ManifestConsistencyErrors) => names_path(error)

\* the order of the effects of one build call, step by step
StepOrder ==
    \* the helper is spawned after output_dir and the shader crate were
    \* validated and no step failed
    /\ (helperSpawned' /\ ~helperSpawned) =>
            /\ pc = "helper" /\ command = "build" /\ result = "none"
            /\ crateExists /\ installed
    \* the raw manifest is parsed after the helper exited with status 0
    /\ (pc = "parse_raw" /\ pc' = "map") =>
            helperSpawned /\ helperExit = 0 /\ result = "none"
    /\ (parsedStale' # parsedStale \/ (shaders' # shaders /\ shaders' # <<>>)) =>
            helperSpawned /\ helperExit = 0
    \* manifest.json is created or written after every record was copied
    \* and its relative path computed
    /\ (manifest' # manifest \/ (manifestTouched' /\ ~manifestTouched)) =>
            /\ helperSpawned /\ helperExit = 0 /\ result = "none"
            /\ idx = Len(shaders) + 1
            /\ copies = Len(shaders)
            /\ Len(linkage) = Len(shaders)
    \* the raw manifest is removed after manifest.json was written in full
    /\ (is_file(rawManifest) /\ ~is_file(rawManifest')) =>
            manifestTouched /\ manifest = Json(linkage) /\ result = "none"
    \* artifacts are copied between the parse and the creation of the manifest
    /\ copies' > copies => helperExit = 0 /\ ~manifestTouched /\ result = "none"
    \* a failing step stops all later ones
    /\ result = "Err" =>
            /\ UNCHANGED fsVars
            /\ (helperSpawned' => helperSpawned)
            /\ copies' <= copies
            /\ pc' \in {"exited", "install", "other"}

\* C18: within one build call the effects occur in a fixed order and a
\* failing step stops all later ones: the helper is spawned only after
\* output_dir and the shader crate were validated, the raw manifest parsed
\* only after the helper exited with status 0, manifest.json created only
\* after every copy and relative path succeeded, the raw manifest removed
\* only after manifest.json was written in full.
C18_EffectsInFixedOrder == [][StepOrder]_vars

\* a build went through every step: helper, parse, two copies, the manifest
\* written in full, the raw manifest removed
C18_Witness ==
    /\ BuildOk /\ helperSpawned /\ rawFresh /\ Len(shaders) = 2 /\ copies = 2
    /\ manifestTouched /\ manifest = Json(linkage) /\ ~is_file(rawManifest)

\* the process arguments without the "gpu" that cargo passes as the first
\* parameter
WithoutCargoToken(list) ==
    IF Len(list) >= 2 /\ list[2] = "gpu"
    THEN <<list[1]>> \o SubSeq(list, 3, Len(list))
    ELSE list

\* C19 (as claimed): the list handed to the parser is the process argument
\* list with only the "gpu" passed as the first parameter removed; every
\* other argument, a later "gpu" included, is kept in its order.
C19_OnlyFirstGpuRemoved == argsDone => args = WithoutCargoToken(argv)

\* C16: a binary pair is built only when no existing pair matches or a
\* rebuild is forced; install calls that all return paths and are never
\* forced run the compile subprocess exactly once in total and return
\* identical (backend binary, helper binary) paths every time.
C16_InstallIdempotent ==
    /\ compiledThisCall => (~installedAtCheck \/ iforce)
    /\ (ipc = "done" /\ icalls >= 2 /\ okCalls = icalls /\ ~forcedEver) =>
            /\ compiles = 1
            /\ firstPaths = lastPaths
            /\ lastPaths = InstallPaths(Signature)

\* two unforced install calls returned paths, the second without a compile
C16_Witness ==
    /\ ipc = "done" /\ icalls = 2 /\ okCalls = 2 /\ ~forcedEver
    /\ installedAtCheck /\ ~compiledThisCall /\ compiles = 1
    /\ cacheDylib = "full" /\ cacheCli = "full"

\* C17 (as claimed): at no point does a reader find a cache entry it treats
\* as installed while either artifact is missing or incomplete.
C17_InstalledMeansComplete ==
    is_installed(cacheDylib, cacheCli) => (cacheDylib = "full" /\ cacheCli = "full")

====
